---- MODULE Spec2Model ----
(***************************************************************************)
(* map_tuple: per-position map over fixed-size heterogeneous tuples.       *)
(*                                                                         *)
(* The crate is one macro, impl_trait!, that emits one impl of             *)
(* InternalTupleMap<INDEX, R, F> per (tuple size, index) pair, five        *)
(* cfg-gated invocations of it, and the entry point TupleMap::mapt that    *)
(* forwards to the impl selected by the tuple type and INDEX.              *)
(*                                                                         *)
(* Three specifications are given:                                         *)
(*   SpecExpand  the macro expander working through one impl_trait!        *)
(*               invocation, one rule application per step                 *)
(*               (SpecExpandFair: the expander keeps going);               *)
(*   Spec        a build (cfg evaluation, macro expansion) followed by     *)
(*               one mapt call of a caller;                                *)
(*   SpecChain   a program compiled against the default build running a    *)
(*               chain of mapt calls.                                      *)
(***************************************************************************)
EXTENDS Integers, Sequences, FiniteSets

VARIABLES
    features,     \* the cargo features the build enables
    pc,           \* position of the build / of the calling program
    invocations,  \* the impl_trait! invocations the cfg gates left enabled
    pending,      \* macro expander: invocations not yet expanded (a stack)
    emitted,      \* macro expander: the impls emitted so far, in order
    t,            \* caller: the tuple value the next mapt is called on
    t0,           \* caller: the tuple the chain started from
    hist,         \* caller: the functions mapped so far over each INDEX
    cursor,       \* caller: a counter a capturing closure advances
    last          \* the last mapt call: what the compiler / the call did

vars == <<features, pc, invocations, pending, emitted, t, t0, hist, cursor,
          last>>

----------------------------------------------------------------------------
(* Bounds of the model *)

\* longest literal list given to impl_trait! in SpecExpand
MaxLits == 8
\* tuples of every size 0..MaxSmall are called on (plus the tier boundaries)
MaxSmall == 5
\* longest chain of accepted mapt calls
MaxCalls == 4
\* largest tuple (0, 1, .., n-1) a chain of calls starts from
MaxChainTuple == 3
\* steps the macro expander is given to finish one impl_trait! invocation
MaxExpandSteps == 10000

----------------------------------------------------------------------------
(* impl_trait!: one macro invocation is its token list.  mode is the       *)
(* leading marker (none for the public form), starter the parenthesised    *)
(* list, rest the literals after it, comma whether the list ends in ','.   *)

Lits(n) == [k \in 1..n |-> k - 1]

RootInvocation(n) ==
    [mode |-> "root", starter |-> <<>>, rest |-> Lits(n), comma |-> FALSE]

\* The rule of macro_rules! that matches an invocation (rules are tried in
\* source order; "none" is the "no rules expected this token" error).
Arm(inv) ==
    IF inv.mode = "root" /\ ~inv.comma THEN "entry"
    ELSE IF inv.mode = "s" /\ Len(inv.rest) >= 2 /\ ~inv.comma THEN "shift"
    ELSE IF inv.mode = "s" /\ Len(inv.rest) = 1 /\ inv.comma THEN "shift_base"
    ELSE IF inv.mode = "c" /\ Len(inv.rest) >= 2 /\ ~inv.comma THEN "cut"
    ELSE IF inv.mode = "c" /\ Len(inv.rest) = 1 /\ inv.comma THEN "cut_base"
    ELSE "none"

\* The impl item a rule emits, as the bindings of its metavariables:
\* impl<.., T$starter.., T$curr, T$next, T$finisher..>
\*   InternalTupleMap<$curr, R, F> for (T$starter.., T$curr, T$next, ..)
\* after is $next followed by $finisher (empty in the base cases).
ImplItem(inv) ==
    [arm     |-> Arm(inv),
     index   |-> Head(inv.rest),
     starter |-> inv.starter,
     curr    |-> Head(inv.rest),
     after   |-> Tail(inv.rest)]

\* impl_trait!(c ($($starter),*) $curr, $($finisher),*)
CutCall(inv) ==
    LET finisher == Tail(Tail(inv.rest))
    IN  [mode    |-> "c",
         starter |-> inv.starter,
         rest    |-> <<Head(inv.rest)>> \o finisher,
         comma   |-> finisher = <<>>]

\* Variant of ShiftCall: the recursive call forgets to move $curr into the
\* starter list, impl_trait!(s ($($starter),*) $next, $($finisher),*).
ShiftCallKeepsStarter(inv) ==
    LET finisher == Tail(Tail(inv.rest))
    IN  [mode    |-> "s",
         starter |-> inv.starter,
         rest    |-> Tail(inv.rest),
         comma   |-> finisher = <<>>]

\* impl_trait!(s ($($starter,)* $curr) $next, $($finisher),*)
ShiftCall(inv) ==
    LET finisher == Tail(Tail(inv.rest))
    IN  [mode    |-> "s",
         starter |-> inv.starter \o <<Head(inv.rest)>>,
         rest    |-> Tail(inv.rest),
         comma   |-> finisher = <<>>]

\* impl_trait!(s () $($all),*)
EntryCall(inv) ==
    [mode |-> "s", starter |-> <<>>, rest |-> inv.rest, comma |-> FALSE]

\* The impls one rule application emits itself.
Emit(inv) ==
    IF Arm(inv) \in {"shift", "shift_base", "cut", "cut_base"}
    THEN <<ImplItem(inv)>>
    ELSE <<>>

\* Variant of Calls: the cutting rule also makes the shifting rule's
\* second recursive call.
CallsCutAlsoShifts(inv) ==
    CASE Arm(inv) = "entry" -> <<EntryCall(inv)>>
      [] Arm(inv) = "shift" -> <<CutCall(inv), ShiftCall(inv)>>
      [] Arm(inv) = "cut"   -> <<CutCall(inv), ShiftCall(inv)>>
      [] OTHER              -> <<>>

\* Variant of Calls: the shifting rule makes no cutting call, so only
\* tuples of the full size get impls.
CallsNeverCut(inv) ==
    CASE Arm(inv) = "entry" -> <<EntryCall(inv)>>
      [] Arm(inv) = "shift" -> <<ShiftCall(inv)>>
      [] Arm(inv) = "cut"   -> <<CutCall(inv)>>
      [] OTHER              -> <<>>

\* The nested impl_trait! invocations one rule application leaves behind.
Calls(inv) ==
    CASE Arm(inv) = "entry" -> <<EntryCall(inv)>>
      [] Arm(inv) = "shift" -> <<CutCall(inv), ShiftCall(inv)>>
      [] Arm(inv) = "cut"   -> <<CutCall(inv)>>
      [] OTHER              -> <<>>

\* What an emitted impl is an impl of: the arity of its Self type, its
\* INDEX, and the tuple position of the element its body passes to f.
Size(impl) == Len(impl.starter) + 1 + Len(impl.after)
Position(impl) == Len(impl.starter)

\* One step of the macro expander on its work list: the invocation on top
\* is replaced by what its rule leaves behind and the rule's impl is added
\* to the crate.  ok turns FALSE when no rule matches (a compile error);
\* nothing is left to do when the list is empty.
ExpandStep(st) ==
    IF st.pending = <<>> \/ ~st.ok THEN st
    ELSE LET inv == Head(st.pending)
         IN  IF Arm(inv) = "none"
             THEN [st EXCEPT !.ok = FALSE]
             ELSE [pending |-> Calls(inv) \o Tail(st.pending),
                   emitted |-> st.emitted \o Emit(inv),
                   ok      |-> TRUE]

\* n steps of the expander (it stops at the first error).
RECURSIVE Iterate(_, _)
Iterate(st, n) ==
    IF n = 0 THEN st
    ELSE IF n = 1 THEN ExpandStep(st)
    ELSE LET mid == Iterate(st, n \div 2)
         IN  IF ~mid.ok THEN mid ELSE Iterate(mid, n - (n \div 2))

\* The whole expansion of one invocation.  ok is FALSE when some nested
\* invocation matches no rule or the expander has not come to an end.
Expansion(inv) ==
    LET r == Iterate([pending |-> <<inv>>, emitted |-> <<>>, ok |-> TRUE],
                     MaxExpandSteps)
    IN  [ok |-> r.ok /\ r.pending = <<>>, items |-> r.emitted]

----------------------------------------------------------------------------
(* The cfg-gated invocations of impl_trait!, in source order.  all and not *)
(* are the features the #[cfg(all(..))] requires present and absent.       *)

Features == {"tuple16", "tuple32", "tuple64", "tuple128"}

Tier8 == 8
Tier16 == 16
Tier32 == 32
Tier64 == 64
Tier128 == 128

Gated ==
    << [lits |-> Tier8,   all |-> {},
        not |-> {"tuple16", "tuple32", "tuple64", "tuple128"}],
       [lits |-> Tier16,  all |-> {"tuple16"},
        not |-> {"tuple32", "tuple64", "tuple128"}],
       [lits |-> Tier32,  all |-> {"tuple32"},
        not |-> {"tuple64", "tuple128"}],
       [lits |-> Tier64,  all |-> {"tuple64"},
        not |-> {"tuple128"}],
       [lits |-> Tier128, all |-> {"tuple128"},
        not |-> {}] >>

\* Variant of CfgHolds: the not(feature = ..) conditions are left out.
CfgHoldsWithoutNot(g, fs) == g.all \subseteq fs

\* #[cfg(all(feature = .., not(feature = ..)))]
CfgHolds(g, fs) == g.all \subseteq fs /\ g.not \cap fs = {}

\* The literal counts of the invocations a feature set leaves in the crate.
Enabled(fs) ==
    LET on == SelectSeq(Gated, LAMBDA g : CfgHolds(g, fs))
    IN  [k \in 1..Len(on) |-> on[k].lits]

\* The expansion of each gated invocation (the macro is a function of its
\* tokens, so each is expanded once whatever the feature set).
ExpansionOf ==
    [n \in {Gated[k].lits : k \in 1..Len(Gated)} |->
        Expansion(RootInvocation(n))]

RECURSIVE ItemsOf(_)
\* All impls of InternalTupleMap in the crate: those of the enabled
\* invocations.  There is no other impl of that trait in the source.
ItemsOf(invs) ==
    IF invs = <<>> THEN <<>>
    ELSE ExpansionOf[Head(invs)].items \o ItemsOf(Tail(invs))

----------------------------------------------------------------------------
(* Values.  A value carries its static type: ty is the type as a sequence  *)
(* of names (<<"Option", "f32">> is Option<f32>), v the payload.  Floats   *)
(* are kept in tenths, a String is the sequence of its characters.         *)

I32(n) == [ty |-> <<"i32">>, v |-> n]
F32(tenths) == [ty |-> <<"f32">>, v |-> tenths]
Bool(b) == [ty |-> <<"bool">>, v |-> b]

DigitChar == <<"0", "1", "2", "3", "4", "5", "6", "7", "8", "9">>

RECURSIVE Digits(_)
Digits(n) ==
    IF n < 10 THEN <<DigitChar[n + 1]>>
    ELSE Digits(n \div 10) \o <<DigitChar[(n % 10) + 1]>>

\* i32::to_string
ToString(n) == IF n < 0 THEN <<"-">> \o Digits(0 - n) ELSE Digits(n)

\* The tuples of the documentation and of the tests.
DocTuple == <<I32(0), F32(10), I32(2), Bool(TRUE), I32(4)>>
RangeTuple(n) == [k \in 1..n |-> I32(k - 1)]

----------------------------------------------------------------------------
(* The functions a caller passes to mapt.  kind is how the function was    *)
(* made, which decides the Fn* traits the compiler implements for it; dom  *)
(* is its parameter type (<<>>: generic in it).                            *)

Fns == {"to_string", "bool_to_i64", "wrap_some", "gt3", "times3_5",
        "add_k", "double", "advance", "consume"}

Kind(f) ==
    CASE f \in {"to_string", "bool_to_i64", "wrap_some", "gt3", "times3_5"}
              -> "closure"        \* captures nothing
      [] f = "add_k"   -> "closure_ref"   \* captures k by shared reference
      [] f = "double"  -> "fn_item"       \* a plain fn
      [] f = "advance" -> "closure_mut"   \* captures cursor by &mut
      [] f = "consume" -> "closure_move"  \* moves a captured value out

\* The Fn* traits a function of each kind implements.
TraitsOf(kind) ==
    CASE kind \in {"closure", "closure_ref", "fn_item"}
              -> {"Fn", "FnMut", "FnOnce"}
      [] kind = "closure_mut"  -> {"FnMut", "FnOnce"}
      [] kind = "closure_move" -> {"FnOnce"}

Dom(f) ==
    CASE f \in {"to_string", "gt3", "times3_5", "add_k", "double"} -> <<"i32">>
      [] f = "bool_to_i64" -> <<"bool">>
      [] OTHER -> <<>>

\* The value f returns for x when the counter it may capture reads c.
Apply(f, x, c) ==
    CASE f = "to_string"   -> [ty |-> <<"String">>, v |-> ToString(x.v)]
      [] f = "bool_to_i64" -> [ty |-> <<"i64">>, v |-> IF x.v THEN 3 ELSE 0]
      [] f = "wrap_some"   -> [ty |-> <<"Option">> \o x.ty, v |-> x.v]
      [] f = "gt3"         -> [ty |-> <<"bool">>, v |-> x.v > 3]
      [] f = "times3_5"    -> [ty |-> <<"f64">>, v |-> 35 * x.v]
      [] f = "add_k"       -> [ty |-> <<"i32">>, v |-> x.v + 10]
      [] f = "double"      -> [ty |-> <<"i32">>, v |-> 2 * x.v]
      [] f = "advance"     -> [ty |-> <<"usize">>, v |-> c + 1]
      [] f = "consume"     -> [ty |-> <<"Box">> \o x.ty, v |-> x.v]

----------------------------------------------------------------------------
(* The generated impls at work.                                            *)

\* The impls of each gated invocation by the arity of their Self type.
ImplsBySize ==
    [n \in DOMAIN ExpansionOf |->
        [S \in 0..(Tier128 + 1) |->
            SelectSeq(ExpansionOf[n].items, LAMBDA im : Size(im) = S)]]

\* The INDEX values each gated invocation has an impl for, by arity.
IndexSets ==
    [n \in DOMAIN ExpansionOf |->
        [S \in 0..(Tier128 + 1) |->
            {ImplsBySize[n][S][k].index : k \in 1..Len(ImplsBySize[n][S])}]]

RECURSIVE ImplsFor(_, _)
\* The impls in the crate whose Self type is a tuple of arity S.
ImplsFor(invs, S) ==
    IF invs = <<>> THEN <<>>
    ELSE ImplsBySize[Head(invs)][S] \o ImplsFor(Tail(invs), S)

RECURSIVE Reverse(_)
Reverse(q) == IF q = <<>> THEN <<>> ELSE Reverse(Tail(q)) \o <<Head(q)>>

\* Variant of Pattern: the names after self$curr are bound back to front.
PatternAfterReversed(impl) ==
    impl.starter \o <<impl.curr>> \o Reverse(impl.after)

\* The names the body's `let (..) = self;` binds, in tuple order:
\* self$starter.., self$curr, self$next, self$finisher..
Pattern(impl) == impl.starter \o <<impl.curr>> \o impl.after

\* Variant of Body: the elements after f(self$curr) are returned back to
\* front.
BodyAfterReversed(impl) ==
    [k \in 1..Len(impl.starter) |-> [call |-> FALSE, name |-> impl.starter[k]]]
    \o <<[call |-> TRUE, name |-> impl.curr]>>
    \o [k \in 1..Len(impl.after) |->
          [call |-> FALSE, name |-> impl.after[Len(impl.after) + 1 - k]]]

\* The expressions of the tuple the body returns, in order:
\* ($self$starter.., f(self$curr), self$next, self$finisher..)
Body(impl) ==
    [k \in 1..Len(impl.starter) |-> [call |-> FALSE, name |-> impl.starter[k]]]
    \o <<[call |-> TRUE, name |-> impl.curr]>>
    \o [k \in 1..Len(impl.after) |-> [call |-> FALSE, name |-> impl.after[k]]]

\* where F: Fn([<T $curr>]) -> R, T$curr being the type the Self tuple has
\* where the impl's generic list puts T$curr.
WhereClause(impl, self, f) ==
    /\ "Fn" \in TraitsOf(Kind(f))
    /\ Dom(f) \in {<<>>, self[Position(impl) + 1].ty}

\* The impls InternalTupleMap<INDEX, R, F> can be resolved to for Self.
Candidates(invs, self, INDEX, f) ==
    SelectSeq(ImplsFor(invs, Len(self)),
              LAMBDA im : im.index = INDEX /\ WhereClause(im, self, f))

\* fn internal_map_tuple(self, f: F) -> Self::Output of one impl: the tuple
\* returned, the arguments f was called with, and the counter afterwards.
InternalMapTuple(impl, self, f, c) ==
    LET names  == Pattern(impl)
        bound  == [nm \in {names[k] : k \in 1..Len(names)} |->
                      self[CHOOSE k \in 1..Len(names) : names[k] = nm]]
        body   == Body(impl)
        callAt == {k \in 1..Len(body) : body[k].call}
        \* the calls are evaluated left to right; each sees the counter
        \* the calls before it left
        seen(k) == IF f = "advance"
                   THEN c + Cardinality({j \in callAt : j < k})
                   ELSE c
    IN  [out  |-> [k \in 1..Len(body) |->
                      IF body[k].call
                      THEN Apply(f, bound[body[k].name], seen(k))
                      ELSE bound[body[k].name]],
         args |-> [k \in callAt |-> bound[body[k].name]],
         cursor |-> IF f = "advance" THEN c + Cardinality(callAt) ELSE c]

\* Variant of Mapt: a blanket fallback returns the tuple as it is when no
\* impl is found for the tuple type and INDEX.
MaptWithFallback(invs, self, INDEX, f, c) ==
    LET cands == Candidates(invs, self, INDEX, f)
    IN  IF Len(cands) = 1
        THEN LET r == InternalMapTuple(cands[1], self, f, c)
             IN  [ok |-> TRUE, out |-> r.out, args |-> r.args,
                  cursor |-> r.cursor]
        ELSE [ok |-> TRUE, out |-> self, args |-> <<>>, cursor |-> c]

\* TupleMap::mapt::<INDEX>(self, f) of the blanket impl: the call compiles
\* when Self: InternalTupleMap<INDEX, R, F> resolves to one impl, and then
\* forwards to that impl's internal_map_tuple.
Mapt(invs, self, INDEX, f, c) ==
    LET cands == Candidates(invs, self, INDEX, f)
    IN  IF Len(cands) = 1
        THEN LET r == InternalMapTuple(cands[1], self, f, c)
             IN  [ok |-> TRUE, out |-> r.out, args |-> r.args,
                  cursor |-> r.cursor]
        ELSE [ok |-> FALSE, out |-> self, args |-> <<>>, cursor |-> c]

----------------------------------------------------------------------------
(* SpecExpand: the macro expander on one impl_trait!(0, .., n-1).          *)

NoCall == [status |-> "none", index |-> 0, f |-> "none", before |-> <<>>,
           cursor |-> 0, args |-> <<>>]

InitExpand ==
    /\ features = {}
    /\ \E n \in 1..MaxLits :
          /\ invocations = <<n>>
          /\ pending = <<RootInvocation(n)>>
    /\ emitted = <<>>
    /\ pc = "expanding"
    /\ t = <<>> /\ t0 = <<>> /\ hist = <<>> /\ cursor = 0 /\ last = NoCall

\* One rule application on the invocation on top of the work list.
Rewrite ==
    LET st == ExpandStep([pending |-> pending, emitted |-> emitted,
                          ok |-> TRUE])
    IN  /\ pending' = st.pending
        /\ emitted' = st.emitted
        /\ pc' = IF ~st.ok THEN "error"
                 ELSE IF st.pending = <<>> THEN "expanded"
                 ELSE "expanding"
        /\ UNCHANGED <<features, invocations, t, t0, hist, cursor, last>>

\* ($($all:literal),*)
ExpandEntry ==
    /\ pc = "expanding"
    /\ Arm(Head(pending)) = "entry"
    /\ Rewrite

\* (s ($($starter:literal),*) $curr:literal, $next:literal $(,$finisher:literal)*)
ExpandShift ==
    /\ pc = "expanding"
    /\ Arm(Head(pending)) = "shift"
    /\ Rewrite

\* (s ($($starter:literal),*) $curr:literal,)
ExpandShiftBase ==
    /\ pc = "expanding"
    /\ Arm(Head(pending)) = "shift_base"
    /\ Rewrite

\* (c ($($starter:literal),*) $curr:literal, $next:literal $(,$finisher:literal)*)
ExpandCut ==
    /\ pc = "expanding"
    /\ Arm(Head(pending)) = "cut"
    /\ Rewrite

\* (c ($($starter:literal),*) $curr:literal,)
ExpandCutBase ==
    /\ pc = "expanding"
    /\ Arm(Head(pending)) = "cut_base"
    /\ Rewrite

\* no rule matches: error "no rules expected the token"
ExpandNoRule ==
    /\ pc = "expanding"
    /\ Arm(Head(pending)) = "none"
    /\ Rewrite

NextExpand ==
    \/ ExpandEntry
    \/ ExpandShift
    \/ ExpandShiftBase
    \/ ExpandCut
    \/ ExpandCutBase
    \/ ExpandNoRule

SpecExpand == InitExpand /\ [][NextExpand]_vars

----------------------------------------------------------------------------
(* Spec: a build of the crate with some features, then one mapt call.      *)

\* The sizes of the tuples called on: the small ones, and for each tier the
\* largest size it supports and the first it does not.
TupleSizes ==
    (0..MaxSmall) \cup {Gated[k].lits : k \in 1..Len(Gated)}
                  \cup {Gated[k].lits + 1 : k \in 1..Len(Gated)}

Tuples == {DocTuple} \cup {RangeTuple(n) : n \in TupleSizes}

\* The INDEX values a caller tries on a tuple: every position of a small
\* tuple, the ends of a large one, and the first index past the end.
Indices(self) ==
    {i \in 0..Len(self) : i <= MaxSmall \/ i >= Len(self) - 1}

NoHist(self) == [i \in 0..(Len(self) - 1) |-> <<>>]

Init ==
    /\ features \in SUBSET Features
    /\ pc = "cfg"
    /\ invocations = <<>>
    /\ pending = <<>> /\ emitted = <<>>
    /\ t0 \in Tuples
    /\ t = t0
    /\ hist = NoHist(t0)
    /\ cursor = 0
    /\ last = NoCall

\* The #[cfg(..)] attributes are evaluated: the invocations whose gate
\* fails are dropped from the crate.
CfgEval ==
    /\ pc = "cfg"
    /\ invocations' = Enabled(features)
    /\ pc' = "expand"
    /\ UNCHANGED <<features, pending, emitted, t, t0, hist, cursor, last>>

\* No two impls of the crate are for the same Self type and INDEX.
Coherent(items) ==
    Cardinality({<<Size(items[k]), items[k].index>> : k \in 1..Len(items)})
        = Len(items)

\* The enabled invocations are expanded and the impls checked; the crate
\* builds when every expansion came to an end and no two impls overlap.
\* (The impls of a built crate are ItemsOf(invocations).)
ExpandAll ==
    /\ pc = "expand"
    /\ pc' = IF /\ \A k \in 1..Len(invocations) :
                       ExpansionOf[invocations[k]].ok
                /\ Coherent(ItemsOf(invocations))
             THEN "run"
             ELSE "build_error"
    /\ UNCHANGED <<features, invocations, pending, emitted, t, t0, hist,
                   cursor, last>>

\* The caller's t.mapt::<INDEX>(f): rejected by the compiler, or run.
MaptStep(INDEX, f) ==
    LET r == Mapt(invocations, t, INDEX, f, cursor)
    IN  /\ last' = [status |-> IF r.ok THEN "ok" ELSE "rejected",
                    index |-> INDEX, f |-> f, before |-> t,
                    cursor |-> cursor, args |-> r.args]
        /\ t' = r.out
        /\ cursor' = r.cursor
        /\ hist' = IF r.ok THEN [hist EXCEPT ![INDEX] = Append(@, f)]
                   ELSE hist
        /\ pc' = IF r.ok THEN "run" ELSE "rejected"
        /\ UNCHANGED <<features, invocations, pending, emitted, t0>>

NumCalls == LET RECURSIVE Sum(_)
                Sum(i) == IF i < 0 THEN 0 ELSE Len(hist[i]) + Sum(i - 1)
            IN  Sum(Len(t0) - 1)

MaptOnce ==
    /\ pc = "run"
    /\ last.status = "none"
    /\ \E INDEX \in Indices(t), f \in Fns : MaptStep(INDEX, f)

Next ==
    \/ CfgEval
    \/ ExpandAll
    \/ MaptOnce

Spec == Init /\ [][Next]_vars

----------------------------------------------------------------------------
(* SpecChain: a program that compiled against the default build runs a     *)
(* chain of mapt calls.                                                    *)

ChainTuples == {DocTuple} \cup {RangeTuple(n) : n \in 1..MaxChainTuple}

InitChain ==
    /\ features = {}
    /\ invocations = Enabled(features)
    /\ pc = "run"
    /\ pending = <<>> /\ emitted = <<>>
    /\ t0 \in ChainTuples
    /\ t = t0
    /\ hist = NoHist(t0)
    /\ cursor = 0
    /\ last = NoCall

MaptChain ==
    /\ pc = "run"
    /\ NumCalls < MaxCalls
    /\ \E INDEX \in Indices(t), f \in Fns :
          /\ Mapt(invocations, t, INDEX, f, cursor).ok
          /\ MaptStep(INDEX, f)

NextChain == MaptChain

SpecChain == InitChain /\ [][NextChain]_vars

----------------------------------------------------------------------------
(* Properties of the macro expansion (SpecExpand, SpecExpandFair).         *)

\* The compiler expands macros until none is left.
SpecExpandFair == SpecExpand /\ WF_vars(NextExpand)

RootLits == invocations[1]

\* C9: at every step of the expansion of impl_trait!(0, .., n-1), in the
\* entry, shifting and cutting invocations alike, the starter list of each
\* invocation is exactly (0, .., curr-1); so every emitted impl has INDEX
\* equal to the number of elements before the mapped one, its body calls f
\* on the element bound at tuple position INDEX and nowhere else, and its
\* tuple has len(starter) + 1 + len(remaining literals) elements.
C9_IndexAlignment ==
    /\ \A k \in 1..Len(pending) :
          (pending[k].mode \in {"s", "c"} /\ pending[k].rest # <<>>)
              => pending[k].starter = Lits(Head(pending[k].rest))
    /\ \A k \in 1..Len(emitted) :
          LET im == emitted[k]
          IN  /\ im.starter = Lits(im.curr)
              /\ im.index = Position(im)
              /\ Pattern(im)[im.index + 1] = im.curr
              /\ {j \in 1..Len(Body(im)) : Body(im)[j].call} = {im.index + 1}
              /\ Body(im)[im.index + 1].name = im.curr
              /\ Len(Pattern(im)) = Size(im)
              /\ Len(Body(im)) = Size(im)

\* The expansion of impl_trait!(0, .., 7) is over, impls of all four
\* emitting rules are in the crate, and some generic after the mapped
\* position is not named after its position.
C9_Witness ==
    /\ pc = "expanded"
    /\ RootLits = Tier8
    /\ {emitted[k].arm : k \in 1..Len(emitted)}
          = {"shift", "shift_base", "cut", "cut_base"}
    /\ \E k \in 1..Len(emitted) :
          /\ emitted[k].after # <<>>
          /\ emitted[k].after[1] # emitted[k].index + 1

\* C10: the expansion of impl_trait!(0, .., M-1), M >= 2, comes to an end
\* without an error; no (tuple size, index) pair is ever emitted twice,
\* and at the end exactly M*(M+1)/2 impls have been emitted.
C10_NoDuplicate ==
    /\ [](Coherent(emitted))
    /\ [](pc = "expanded" =>
             Len(emitted) = (RootLits * (RootLits + 1)) \div 2)
    /\ (RootLits >= 2 => <>(pc = "expanded"))

\* The expansion of impl_trait!(0, .., 7) has ended with 36 impls.
C10_Witness ==
    /\ pc = "expanded"
    /\ RootLits = Tier8
    /\ Len(emitted) = 36
    /\ \E j, k \in 1..Len(emitted) :
          emitted[j].arm = "shift" /\ emitted[k].arm = "cut_base"

----------------------------------------------------------------------------
(* Properties of a build and of one mapt call (Spec).                      *)

\* The INDEX values the built crate has an impl for on tuples of arity S.
CapsAt(S) == UNION {IndexSets[invocations[k]][S] : k \in 1..Len(invocations)}

\* The largest tuple size of the build, from the invocations left enabled.
ActiveMax ==
    LET sizes == {invocations[k] : k \in 1..Len(invocations)}
    IN  CHOOSE m \in sizes : \A n \in sizes : n <= m

\* the build is over and the caller has not called yet
JustBuilt == pc = "run" /\ last.status = "none"

\* a mapt call was compiled (accepted or rejected)
Called == last.status # "none"

\* The call named a position of a tuple of a supported size, and the
\* function takes the type found there.
ValidCall ==
    /\ Called
    /\ 1 <= Len(last.before) /\ Len(last.before) <= ActiveMax
    /\ last.index < Len(last.before)
    /\ Dom(last.f) \in {<<>>, last.before[last.index + 1].ty}

\* The function is one the Fn bound of the impls admits.
SharedCallable == "Fn" \in TraitsOf(Kind(last.f))

\* C1: mapt::<i>(f) on a tuple of a supported size S with i < S returns a
\* tuple of the same arity S whose element i is f(t[i]) and whose every
\* other element is the element of t at the same position, value and type
\* (for the functions the impls' bound admits).
C1_PositionalPurity ==
    (ValidCall /\ SharedCallable) =>
        /\ last.status = "ok"
        /\ Len(t) = Len(last.before)
        /\ t[last.index + 1]
              = Apply(last.f, last.before[last.index + 1], last.cursor)
        /\ \A j \in 1..Len(t) :
              j # last.index + 1 => t[j] = last.before[j]

\* Under feature tuple16 a 16-tuple was mapped at an inner index by a
\* function that changes the element's type.
C1_Witness ==
    /\ features = {"tuple16"}
    /\ last.status = "ok"
    /\ Len(last.before) = Tier16
    /\ last.index = 3
    /\ last.f = "to_string"
    /\ t[4] = [ty |-> <<"String">>, v |-> <<"3">>]
    /\ t[5] = I32(4)

\* C2 as stated: every mapt call at a valid position invokes the function
\* exactly once, on the element at the selected position, whatever the
\* function's calling convention, a single-call function included.
C2_SingleInvocation ==
    ValidCall =>
        /\ Cardinality(DOMAIN last.args) = 1
        /\ \A k \in DOMAIN last.args :
              last.args[k] = last.before[last.index + 1]

\* C3 as stated: mapt accepts a function of any calling convention that is
\* callable with the type at the selected position.
C3_AnyCallingConvention ==
    ValidCall => last.status = "ok"

\* C4 as stated: after one mapt call with a function that advances a
\* counter it captured by exclusive reference, the caller sees the counter
\* advanced by exactly one.
C4_MutationPropagates ==
    (ValidCall /\ last.f = "advance") => cursor = last.cursor + 1

\* C6: the crate built for maximum size M has an impl for every pair
\* (S, i) with 1 <= S <= M and 0 <= i < S; and the pairs of each larger
\* tier strictly include those of every smaller tier.
C6_TierInclusion ==
    JustBuilt =>
        /\ \A S \in 1..ActiveMax : (0..(S - 1)) \subseteq CapsAt(S)
        /\ \A a, b \in DOMAIN IndexSets :
              a < b =>
                  /\ \A S \in 0..(Tier128 + 1) :
                        IndexSets[a][S] \subseteq IndexSets[b][S]
                  /\ \E S \in 0..(Tier128 + 1) :
                        IndexSets[b][S] # IndexSets[a][S]

\* A crate was built for tier 64; it has the impls for a 1-tuple, for the
\* last position of a 63-tuple and for the last of a 64-tuple.
C6_Witness ==
    /\ JustBuilt
    /\ features = {"tuple64"}
    /\ ActiveMax = Tier64
    /\ 0 \in CapsAt(1) /\ 62 \in CapsAt(63) /\ 63 \in CapsAt(64)

\* The maximum size the documentation gives for a feature set.
Documented(fs) ==
    IF "tuple128" \in fs THEN Tier128
    ELSE IF "tuple64" \in fs THEN Tier64
    ELSE IF "tuple32" \in fs THEN Tier32
    ELSE IF "tuple16" \in fs THEN Tier16
    ELSE Tier8

\* C7: whatever the combination of tuple16, tuple32, tuple64, tuple128,
\* exactly one impl_trait! invocation is enabled, that of the largest
\* enabled feature, and that of size 8 when none is enabled.
C7_TierSelection ==
    pc # "cfg" =>
        /\ Len(invocations) = 1
        /\ invocations[1] = Documented(features)
        /\ pc # "build_error"

\* A build with two features enabled went through: the larger one won.
C7_Witness ==
    /\ features = {"tuple16", "tuple64"}
    /\ pc = "run"
    /\ invocations = <<Tier64>>

\* C8: the crate has no impl for a pair (S, i) with i >= S, S = 0 or
\* S > M; a mapt call for such a pair is rejected when compiled, whatever
\* the function, and a rejected call runs nothing: the function is not
\* invoked, no tuple is produced and the program does not go on.
C8_InvalidIndexRejected ==
    /\ JustBuilt =>
          /\ LET items == ItemsOf(invocations)
             IN  \A k \in 1..Len(items) :
                    /\ 1 <= Size(items[k]) /\ Size(items[k]) <= ActiveMax
                    /\ 0 <= items[k].index /\ items[k].index < Size(items[k])
          /\ \A S \in 0..(Tier128 + 1) :
                CapsAt(S) \subseteq
                    (IF S <= ActiveMax THEN 0..(S - 1) ELSE {})
    /\ (Called /\ ~(1 <= Len(last.before) /\ Len(last.before) <= ActiveMax
                    /\ last.index < Len(last.before)))
          => last.status = "rejected"
    /\ last.status = "rejected" =>
          /\ pc = "rejected"
          /\ DOMAIN last.args = {}
          /\ t = last.before
          /\ cursor = last.cursor

\* In the default build, a call at the first index past the end of an
\* 8-tuple and a call on a 9-tuple were both rejected.
C8_Witness ==
    /\ features = {}
    /\ pc = "rejected"
    /\ last.f = "to_string"
    /\ \/ Len(last.before) = Tier8 /\ last.index = Tier8
       \/ Len(last.before) = Tier8 + 1 /\ last.index = 0

----------------------------------------------------------------------------
(* Properties of a chain of mapt calls (SpecChain).                        *)

RECURSIVE ApplyAll(_, _)
\* fs applied to x one after the other
ApplyAll(fs, x) ==
    IF fs = <<>> THEN x ELSE ApplyAll(Tail(fs), Apply(Head(fs), x, 0))

\* The chain of the crate documentation, per INDEX, and its result.
DocHist ==
    [i \in 0..4 |->
        CASE i = 0 -> <<"to_string">>
          [] i = 1 -> <<"wrap_some">>
          [] i = 3 -> <<"bool_to_i64">>
          [] i = 4 -> <<"gt3">>
          [] OTHER -> <<>>]

DocResult ==
    << [ty |-> <<"String">>, v |-> <<"0">>],
       [ty |-> <<"Option", "f32">>, v |-> 10],
       I32(2),
       [ty |-> <<"i64">>, v |-> 3],
       Bool(TRUE) >>

\* C5: after a chain of mapt calls with functions that depend on their
\* argument only, every position of the tuple holds its original value
\* passed through the functions mapped over that position and through no
\* other, in whatever order the calls at different indices were made (so
\* mapping a then b gives what mapping b then a gives); the chain of the
\* documentation gives ("0", Some(1.0), 2, 3i64, true).
C5_Composable ==
    (\A i \in DOMAIN hist : \A k \in 1..Len(hist[i]) : hist[i][k] # "advance")
    =>  /\ Len(t) = Len(t0)
        /\ \A i \in DOMAIN hist : t[i + 1] = ApplyAll(hist[i], t0[i + 1])
        /\ (t0 = DocTuple /\ hist = DocHist) => t = DocResult

\* The documented chain was run in the documented order (3, 0, 1, 4).
C5_Witness ==
    /\ t0 = DocTuple
    /\ hist = DocHist
    /\ t = DocResult
    /\ last.status = "ok" /\ last.index = 4 /\ last.f = "gt3"
    /\ last.before[1].ty = <<"String">>
    /\ last.before[2].ty = <<"Option", "f32">>

====
